---- MODULE Spec2Model ----
(***************************************************************************)
(* markdown2html.py: conversion of a restricted Markdown dialect to HTML.  *)
(* A Python str is a sequence of one-character strings; a list of str is a *)
(* sequence of such sequences.  Python indices are 0-based, so lines[i] of *)
(* the source is lines[i + 1] here.                                        *)
(***************************************************************************)
EXTENDS Integers, Sequences, FiniteSets, TLC

VARIABLES
    argv_len,         \* len(sys.argv)
    input_kind,       \* what sys.argv[1] names: "absent", "file" or "dir"
    input_data,       \* what f.readlines() returns for the input file
    out_file,         \* the file sys.argv[2] names: [exists, data]
    stderr,           \* what was reported on standard error
    exit_code,        \* process exit status, -1 while running
    pc,               \* position in the program
    lines,
    html_lines,
    i,
    ul_items,
    ol_items,
    paragraph_lines,
    fmt_in,           \* argument of process_line_formatting
    fmt_text,         \* its local variable text
    fmt_pc            \* position inside process_line_formatting

vars == <<argv_len, input_kind, input_data, out_file, stderr, exit_code, pc,
          lines, html_lines, i, ul_items, ol_items, paragraph_lines,
          fmt_in, fmt_text, fmt_pc>>

progVars == <<argv_len, input_kind, input_data, out_file, stderr, exit_code,
              pc, lines, html_lines, i, ul_items, ol_items, paragraph_lines>>

fmtVars == <<fmt_in, fmt_text, fmt_pc>>

(***************************************************************************)
(* Bounds.                                                                 *)
(***************************************************************************)
MaxLines == 3
MaxInner == 5

(***************************************************************************)
(* str primitives.                                                         *)
(***************************************************************************)
NL == "\n"

IsSpace(c) == c \in {" ", "\t", "\n"}

StartsWith(s, p) == Len(s) >= Len(p) /\ SubSeq(s, 1, Len(p)) = p

\* s[k:] for a 0-based k
DropPrefix(s, k) == SubSeq(s, k + 1, Len(s))

\* F(v), with v evaluated once before F is unfolded
Apply(F(_), v) == CHOOSE r \in {F(x) : x \in {v}} : TRUE

\* s.rstrip('\n')
RstripNL(s) ==
    Apply(LAMBDA t :
            SubSeq(t, 1, CHOOSE n \in 0..Len(t) :
                            /\ \A k \in (n + 1)..Len(t) : t[k] = NL
                            /\ (n = 0 \/ t[n] # NL)),
          s)

\* s.strip()
Strip(s) ==
    Apply(LAMBDA t :
            IF \A k \in 1..Len(t) : IsSpace(t[k]) THEN <<>>
            ELSE SubSeq(t,
                        CHOOSE a \in 1..Len(t) :
                           ~IsSpace(t[a]) /\ \A k \in 1..(a - 1) : IsSpace(t[k]),
                        CHOOSE b \in 1..Len(t) :
                           ~IsSpace(t[b]) /\ \A k \in (b + 1)..Len(t) : IsSpace(t[k])),
          s)

\* sep.join(ss)
RECURSIVE Join(_, _)
Join(sep, ss) ==
    IF ss = <<>> THEN <<>>
    ELSE IF Len(ss) = 1 THEN ss[1]
    ELSE ss[1] \o sep \o Join(sep, Tail(ss))

(***************************************************************************)
(* String literals of the source.                                          *)
(***************************************************************************)
TagB_Open == <<"<", "b", ">">>
TagB_Close == <<"<", "/", "b", ">">>
TagEm_Open == <<"<", "e", "m", ">">>
TagEm_Close == <<"<", "/", "e", "m", ">">>
TagLi_Open == <<"<", "l", "i", ">">>
TagLi_Close == <<"<", "/", "l", "i", ">">>
TagUl_Open == <<"<", "u", "l", ">">>
TagUl_Close == <<"<", "/", "u", "l", ">">>
TagOl_Open == <<"<", "o", "l", ">">>
TagOl_Close == <<"<", "/", "o", "l", ">">>
TagP_Open == <<"<", "p", ">">>
TagP_Close == <<"<", "/", "p", ">">>
TagBr == <<"<", "b", "r", "/", ">">>
PrefixUl == <<"-", " ">>
PrefixOl == <<"*", " ">>
Hash == "#"

\* str(level) for a heading level
Digit(n) == <<"0", "1", "2", "3", "4", "5", "6", "7", "8", "9">>[n + 1]

(***************************************************************************)
(* hashlib.md5(content.encode()).hexdigest(): 32 lowercase hexadecimal     *)
(* digits that depend on every character of the content and its position.  *)
(* The digest function itself is library code; it is modelled by a         *)
(* position-weighted checksum spread over the 32 digits.                   *)
(***************************************************************************)
HexDigits == <<"0", "1", "2", "3", "4", "5", "6", "7",
               "8", "9", "a", "b", "c", "d", "e", "f">>

DigestLen == 32

Ord(c) ==
    CASE c = " " -> 32 [] c = "#" -> 35 [] c = "(" -> 40 [] c = ")" -> 41
      [] c = "*" -> 42 [] c = "-" -> 45 [] c = "/" -> 47 [] c = "<" -> 60
      [] c = ">" -> 62 [] c = "C" -> 67 [] c = "[" -> 91 [] c = "]" -> 93
      [] c = "_" -> 95 [] c = "a" -> 97 [] c = "b" -> 98 [] c = "c" -> 99
      [] c = "e" -> 101 [] c = "m" -> 109 [] c = "x" -> 120
      [] OTHER -> 63

RECURSIVE Checksum(_, _)
Checksum(content, k) ==
    IF k > Len(content) THEN 7
    ELSE (Ord(content[k]) * (2 * k + 1) + 31 * Checksum(content, k + 1)) % 65536

hexdigest(content) ==
    LET sum == Checksum(content, 1)
    IN [j \in 1..DigestLen |-> HexDigits[((sum \div j + 5 * j) % 16) + 1]]

(***************************************************************************)
(* re.sub(Open (.+?) Close, repl, text) for two-character delimiters:      *)
(* leftmost match, shortest non-empty content, '.' does not match a        *)
(* newline, scanning resumes after the closing delimiter.                  *)
(***************************************************************************)
remove_c_LowerOnly(content) == SelectSeq(content, LAMBDA c : c # "c")

md5_replace(content) == hexdigest(content)

remove_c(content) == SelectSeq(content, LAMBDA c : c \notin {"c", "C"})

Replacement(rule, content) ==
    CASE rule = "md5" -> md5_replace(content)
      [] rule = "remove_c" -> remove_c(content)
      [] rule = "bold" -> TagB_Open \o content \o TagB_Close
      [] rule = "em" -> TagEm_Open \o content \o TagEm_Close

OpenOf(rule) ==
    CASE rule = "md5" -> <<"[", "[">>
      [] rule = "remove_c" -> <<"(", "(">>
      [] rule = "bold" -> <<"*", "*">>
      [] rule = "em" -> <<"_", "_">>

CloseOf(rule) ==
    CASE rule = "md5" -> <<"]", "]">>
      [] rule = "remove_c" -> <<")", ")">>
      [] rule = "bold" -> <<"*", "*">>
      [] rule = "em" -> <<"_", "_">>

\* a match that starts at pos may have its closing delimiter at e
ClosesAt(text, pos, rule, e) ==
    /\ SubSeq(text, e, e + 1) = CloseOf(rule)
    /\ \A k \in (pos + 2)..(e - 1) : text[k] # NL

\* position of the closing delimiter of the match that starts at pos, 0 if none
MatchEnd(text, pos, rule) ==
    IF /\ pos + 1 <= Len(text)
       /\ SubSeq(text, pos, pos + 1) = OpenOf(rule)
       /\ \E e \in (pos + 3)..(Len(text) - 1) : ClosesAt(text, pos, rule, e)
    THEN CHOOSE e \in (pos + 3)..(Len(text) - 1) :
            /\ ClosesAt(text, pos, rule, e)
            /\ \A o \in (pos + 3)..(e - 1) : ~ClosesAt(text, pos, rule, o)
    ELSE 0

\* where the leftmost match at or after pos starts, 0 if there is none
FirstMatch(text, pos, rule) ==
    IF \E p \in pos..Len(text) : MatchEnd(text, p, rule) # 0
    THEN CHOOSE p \in pos..Len(text) :
            /\ MatchEnd(text, p, rule) # 0
            /\ \A o \in pos..(p - 1) : MatchEnd(text, o, rule) = 0
    ELSE 0

\* the scan from pos on: text up to the next match is copied, the match is
\* replaced and the scan resumes after its closing delimiter
RECURSIVE ReSubFrom(_, _, _)
ReSubMatch(text, pos, rule, p, e) ==
    SubSeq(text, pos, p - 1)
        \o Replacement(rule, SubSeq(text, p + 2, e - 1))
        \o ReSubFrom(text, e + 2, rule)

ReSubFirst(text, pos, rule, p) ==
    IF p = 0 THEN SubSeq(text, pos, Len(text))
    ELSE Apply(LAMBDA e : ReSubMatch(text, pos, rule, p, e), MatchEnd(text, p, rule))

ReSubFrom(text, pos, rule) ==
    Apply(LAMBDA p : ReSubFirst(text, pos, rule, p), FirstMatch(text, pos, rule))

ReSub(rule, text) == Apply(LAMBDA t : ReSubFrom(t, 1, rule), text)

parse_bold_emphasis(text) == ReSub("em", ReSub("bold", text))

parse_special_syntax(text) == ReSub("remove_c", ReSub("md5", text))

process_line_formatting(text) == parse_bold_emphasis(parse_special_syntax(text))

(***************************************************************************)
(* re.match(r'^(#{1,6})\s+(.+)$', line): the opening run of '#' must be    *)
(* one to six long and be followed by whitespace; \s+ is greedy and gives  *)
(* back characters only when (.+) would otherwise be empty.                *)
(***************************************************************************)
\* length of the run of '#' that opens s
HashCount(s) ==
    Apply(LAMBDA t :
            CHOOSE n \in 0..Len(t) :
               /\ \A k \in 1..n : t[k] = Hash
               /\ (n = Len(t) \/ t[n + 1] # Hash),
          s)

\* length of the run of whitespace that opens s
SpaceCount(s) ==
    Apply(LAMBDA t :
            CHOOSE n \in 0..Len(t) :
               /\ \A k \in 1..n : IsSpace(t[k])
               /\ (n = Len(t) \/ ~IsSpace(t[n + 1])),
          s)

\* \s+ may take v characters of after and leave (.+)$ the rest
LeavesContent(after, v) ==
    /\ v < Len(after)
    /\ \A k \in (v + 1)..Len(after) : after[k] # NL

HeadingOf(h, after, w) ==
    IF h >= 1 /\ h <= 6 /\ \E v \in 1..w : LeavesContent(after, v)
    THEN [matched |-> TRUE, level |-> h,
          content |-> DropPrefix(after,
                         CHOOSE v \in 1..w :
                            /\ LeavesContent(after, v)
                            /\ \A o \in (v + 1)..w : ~LeavesContent(after, o))]
    ELSE [matched |-> FALSE, level |-> 0, content |-> <<>>]

heading_match(line) ==
    Apply(LAMBDA l :
            Apply(LAMBDA after : HeadingOf(HashCount(l), after, SpaceCount(after)),
                  DropPrefix(l, HashCount(l))),
          line)

HeadingHtml_Level1(level, content) ==
    <<"<", "h", "1", ">">> \o content \o <<"<", "/", "h", "1", ">">>

\* f'<h{level}>{content}</h{level}>'
HeadingHtml(level, content) ==
    <<"<", "h", Digit(level), ">">> \o content \o <<"<", "/", "h", Digit(level), ">">>

\* f'<li>{item_content}</li>'
ItemHtml(raw) ==
    TagLi_Open \o process_line_formatting(RstripNL(DropPrefix(raw, 2))) \o TagLi_Close

\* the condition of the paragraph loop, lines 101-105, on lines[i]
IsParagraphLine(raw) ==
    /\ Strip(raw) # <<>>
    /\ ~StartsWith(raw, <<Hash>>)
    /\ ~StartsWith(raw, PrefixUl)
    /\ ~StartsWith(raw, PrefixOl)

RECURSIVE ParagraphBody_BrAfterEach(_)
ParagraphBody_BrAfterEach(plines) ==
    IF plines = <<>> THEN <<>>
    ELSE <<process_line_formatting(Head(plines)), TagBr>>
             \o ParagraphBody_BrAfterEach(Tail(plines))

\* the for loop over enumerate(paragraph_lines), lines 112-118
RECURSIVE ParagraphBody(_)
ParagraphBody(plines) ==
    IF plines = <<>> THEN <<>>
    ELSE IF Len(plines) > 1
         THEN <<process_line_formatting(Head(plines)), TagBr>>
                  \o ParagraphBody(Tail(plines))
         ELSE <<process_line_formatting(Head(plines))>>

(***************************************************************************)
(* Inputs.                                                                 *)
(***************************************************************************)
Rep(c, n) == [k \in 1..n |-> c]

LineBodies ==
    { <<>>,
      Rep(Hash, 6) \o <<" ", "a">>,
      <<"#", " ", " ", "a">>,
      <<"#", " ", " ">>,
      <<"#", "a">>,
      Rep(Hash, 7) \o <<" ", "a">>,
      <<"-", " ", "a">>,
      <<"-", " ", " ", "b", " ">>,
      <<"*", " ", "a">>,
      <<"a">>,
      <<"*", "*", "b", "*", "*">> }

\* readlines(): every line keeps its newline; only the last one may lack it
\* (files of one or two lines are taken both ways)
WithNewlines(body, last_nl) ==
    [k \in 1..Len(body) |->
        IF k < Len(body) \/ last_nl THEN body[k] \o <<NL>> ELSE body[k]]

FileLines ==
    UNION { { WithNewlines(body, TRUE) : body \in [1..n -> LineBodies] }
            \cup { WithNewlines(body, FALSE) :
                      body \in {b \in [1..n -> LineBodies] :
                                  n \in {1, 2} /\ b[n] # <<>>} } :
            n \in 0..MaxLines }

OldData == <<"o", "l", "d", NL>>

NoFile == [exists |-> FALSE, data |-> <<>>]

ArgvLens == 1..4

InputKinds == {"absent", "file", "dir"}

(***************************************************************************)
(* The program.                                                            *)
(***************************************************************************)
Idle == fmt_in = <<>> /\ fmt_text = <<>> /\ fmt_pc = "idle"

ProgIdle ==
    /\ argv_len = 1 /\ input_kind = "absent" /\ input_data = <<>>
    /\ out_file = NoFile /\ stderr = "" /\ exit_code = -1 /\ pc = "idle"
    /\ lines = <<>> /\ html_lines = <<>> /\ i = 0
    /\ ul_items = <<>> /\ ol_items = <<>> /\ paragraph_lines = <<>>

Init ==
    /\ argv_len \in ArgvLens
    /\ input_kind \in InputKinds
    /\ input_data \in FileLines
    /\ (argv_len < 3 \/ input_kind # "file") => input_data = <<>>
    /\ argv_len > 3 => Len(input_data) <= 1
    /\ out_file \in {NoFile, [exists |-> TRUE, data |-> OldData]}
    /\ out_file.exists => Len(input_data) <= 1
    /\ stderr = "" /\ exit_code = -1 /\ pc = "main"
    /\ lines = <<>> /\ html_lines = <<>> /\ i = 0
    /\ ul_items = <<>> /\ ol_items = <<>> /\ paragraph_lines = <<>>
    /\ Idle

Die(msg) ==
    /\ stderr' = msg /\ exit_code' = 1 /\ pc' = "exited"

\* lines 128-133
CheckArgs ==
    /\ pc = "main"
    /\ IF argv_len < 3 THEN Die("usage")
       ELSE pc' = "check_input" /\ UNCHANGED <<stderr, exit_code>>
    /\ UNCHANGED <<argv_len, input_kind, input_data, out_file, lines,
                   html_lines, i, ul_items, ol_items, paragraph_lines, fmtVars>>

\* lines 135-140: os.path.exists is true of a directory as of a file
CheckInput ==
    /\ pc = "check_input"
    /\ IF input_kind = "absent" THEN Die("missing")
       ELSE pc' = "read_input" /\ UNCHANGED <<stderr, exit_code>>
    /\ UNCHANGED <<argv_len, input_kind, input_data, out_file, lines,
                   html_lines, i, ul_items, ol_items, paragraph_lines, fmtVars>>

\* lines 142, 55-59: open() of a directory raises IsADirectoryError, which
\* nothing catches: traceback on standard error, exit status 1
ReadInput ==
    /\ pc = "read_input"
    /\ IF input_kind = "dir"
       THEN Die("traceback") /\ UNCHANGED <<lines, html_lines, i>>
       ELSE /\ lines' = input_data /\ html_lines' = <<>> /\ i' = 0
            /\ pc' = "loop" /\ UNCHANGED <<stderr, exit_code>>
    /\ UNCHANGED <<argv_len, input_kind, input_data, out_file,
                   ul_items, ol_items, paragraph_lines, fmtVars>>

\* line 62
line == RstripNL(lines[i + 1])

LoopFrame ==
    UNCHANGED <<argv_len, input_kind, input_data, out_file, stderr, exit_code,
                lines, fmtVars>>

\* lines 64-70
HeadingLine ==
    /\ pc = "loop" /\ i < Len(lines)
    /\ StartsWith(line, <<Hash>>)
    /\ LET match == heading_match(line)
       IN html_lines' =
              IF match.matched
              THEN Append(html_lines,
                          HeadingHtml(match.level, process_line_formatting(match.content)))
              ELSE html_lines
    /\ i' = i + 1
    /\ UNCHANGED <<pc, ul_items, ol_items, paragraph_lines>>
    /\ LoopFrame

\* lines 72-73
UlBegin ==
    /\ pc = "loop" /\ i < Len(lines)
    /\ ~StartsWith(line, <<Hash>>)
    /\ StartsWith(line, PrefixUl)
    /\ ul_items' = <<>> /\ pc' = "ul"
    /\ UNCHANGED <<html_lines, i, ol_items, paragraph_lines>>
    /\ LoopFrame

UlCond_OneItem ==
    i < Len(lines) /\ StartsWith(lines[i + 1], PrefixUl) /\ ul_items = <<>>

UlCond == i < Len(lines) /\ StartsWith(lines[i + 1], PrefixUl)

\* lines 74-79
UlItem ==
    /\ pc = "ul" /\ UlCond
    /\ ul_items' = Append(ul_items, ItemHtml(lines[i + 1]))
    /\ i' = i + 1
    /\ UNCHANGED <<pc, html_lines, ol_items, paragraph_lines>>
    /\ LoopFrame

\* lines 80-83
UlEnd ==
    /\ pc = "ul" /\ ~UlCond
    /\ html_lines' = IF ul_items # <<>>
                     THEN html_lines \o <<TagUl_Open>> \o ul_items \o <<TagUl_Close>>
                     ELSE html_lines
    /\ pc' = "loop"
    /\ UNCHANGED <<i, ul_items, ol_items, paragraph_lines>>
    /\ LoopFrame

\* lines 85-86
OlBegin ==
    /\ pc = "loop" /\ i < Len(lines)
    /\ ~StartsWith(line, <<Hash>>)
    /\ ~StartsWith(line, PrefixUl)
    /\ StartsWith(line, PrefixOl)
    /\ ol_items' = <<>> /\ pc' = "ol"
    /\ UNCHANGED <<html_lines, i, ul_items, paragraph_lines>>
    /\ LoopFrame

OlCond == i < Len(lines) /\ StartsWith(lines[i + 1], PrefixOl)

\* lines 87-92
OlItem ==
    /\ pc = "ol" /\ OlCond
    /\ ol_items' = Append(ol_items, ItemHtml(lines[i + 1]))
    /\ i' = i + 1
    /\ UNCHANGED <<pc, html_lines, ul_items, paragraph_lines>>
    /\ LoopFrame

OlEnd_NoClose ==
    /\ pc = "ol" /\ ~OlCond
    /\ html_lines' = IF ol_items # <<>>
                     THEN html_lines \o <<TagOl_Open>> \o ol_items
                     ELSE html_lines
    /\ pc' = "loop"
    /\ UNCHANGED <<i, ul_items, ol_items, paragraph_lines>>
    /\ LoopFrame

\* lines 93-96
OlEnd ==
    /\ pc = "ol" /\ ~OlCond
    /\ html_lines' = IF ol_items # <<>>
                     THEN html_lines \o <<TagOl_Open>> \o ol_items \o <<TagOl_Close>>
                     ELSE html_lines
    /\ pc' = "loop"
    /\ UNCHANGED <<i, ul_items, ol_items, paragraph_lines>>
    /\ LoopFrame

\* lines 98-99
ParagraphBegin ==
    /\ pc = "loop" /\ i < Len(lines)
    /\ ~StartsWith(line, <<Hash>>)
    /\ ~StartsWith(line, PrefixUl)
    /\ ~StartsWith(line, PrefixOl)
    /\ Strip(line) # <<>>
    /\ paragraph_lines' = <<>> /\ pc' = "p"
    /\ UNCHANGED <<html_lines, i, ul_items, ol_items>>
    /\ LoopFrame

ParagraphCond == i < Len(lines) /\ IsParagraphLine(lines[i + 1])

\* lines 100-108
ParagraphLine ==
    /\ pc = "p" /\ ParagraphCond
    /\ paragraph_lines' = Append(paragraph_lines, RstripNL(lines[i + 1]))
    /\ i' = i + 1
    /\ UNCHANGED <<pc, html_lines, ul_items, ol_items>>
    /\ LoopFrame

\* lines 110-119
ParagraphEnd ==
    /\ pc = "p" /\ ~ParagraphCond
    /\ html_lines' = IF paragraph_lines # <<>>
                     THEN html_lines \o <<TagP_Open>> \o ParagraphBody(paragraph_lines)
                              \o <<TagP_Close>>
                     ELSE html_lines
    /\ pc' = "loop"
    /\ UNCHANGED <<i, ul_items, ol_items, paragraph_lines>>
    /\ LoopFrame

BlankLine_NoAdvance ==
    /\ pc = "loop" /\ i < Len(lines)
    /\ ~StartsWith(line, <<Hash>>)
    /\ ~StartsWith(line, PrefixUl)
    /\ ~StartsWith(line, PrefixOl)
    /\ Strip(line) = <<>>
    /\ UNCHANGED <<pc, i, html_lines, ul_items, ol_items, paragraph_lines>>
    /\ LoopFrame

\* lines 120-121
BlankLine ==
    /\ pc = "loop" /\ i < Len(lines)
    /\ ~StartsWith(line, <<Hash>>)
    /\ ~StartsWith(line, PrefixUl)
    /\ ~StartsWith(line, PrefixOl)
    /\ Strip(line) = <<>>
    /\ i' = i + 1
    /\ UNCHANGED <<pc, html_lines, ul_items, ol_items, paragraph_lines>>
    /\ LoopFrame

\* lines 61, 123-124: the loop is left and the output file is written
WriteOutput ==
    /\ pc = "loop" /\ ~(i < Len(lines))
    /\ out_file' = [exists |-> TRUE, data |-> Join(<<NL>>, html_lines) \o <<NL>>]
    /\ pc' = "written"
    /\ UNCHANGED <<argv_len, input_kind, input_data, stderr, exit_code, lines,
                   html_lines, i, ul_items, ol_items, paragraph_lines, fmtVars>>

\* line 143
ExitOk ==
    /\ pc = "written"
    /\ exit_code' = 0 /\ pc' = "exited"
    /\ UNCHANGED <<argv_len, input_kind, input_data, out_file, stderr, lines,
                   html_lines, i, ul_items, ol_items, paragraph_lines, fmtVars>>

Next ==
    \/ CheckArgs \/ CheckInput \/ ReadInput
    \/ HeadingLine
    \/ UlBegin \/ UlItem \/ UlEnd
    \/ OlBegin \/ OlItem \/ OlEnd
    \/ ParagraphBegin \/ ParagraphLine \/ ParagraphEnd
    \/ BlankLine
    \/ WriteOutput \/ ExitOk

Spec == Init /\ [][Next]_vars

FairSpec == Spec /\ WF_vars(Next)

TypeOK ==
    /\ pc \in {"idle", "main", "check_input", "read_input", "loop", "ul", "ol",
               "p", "written", "exited"}
    /\ i \in 0..Len(lines)
    /\ exit_code \in {-1, 0, 1}

(***************************************************************************)
(* process_line_formatting on its own, one re.sub call per step.           *)
(***************************************************************************)
InnerChars == {"*", "_", "a", "c"}

Inners == UNION { [1..n -> InnerChars] : n \in 1..MaxInner }

Wrap(rule, inner) ==
    IF rule = "none" THEN inner ELSE OpenOf(rule) \o inner \o CloseOf(rule)

\* '((Cacao))' and '**bold** and __em__'
MoreTexts ==
    { <<"(", "(", "C", "a", "c", "a", "o", ")", ")">>,
      <<"*", "*", "b", "o", "l", "d", "*", "*", " ", "a", "n", "d", " ",
        "_", "_", "e", "m", "_", "_">> }

InlineTexts ==
    { Wrap(rule, inner) : rule \in {"none", "md5", "remove_c"}, inner \in Inners }
        \cup MoreTexts

InitInline ==
    /\ ProgIdle
    /\ fmt_in \in InlineTexts
    /\ fmt_text = fmt_in
    /\ fmt_pc = "md5"

FmtStep(rule, next) ==
    /\ fmt_pc = rule
    /\ fmt_text' = ReSub(rule, fmt_text)
    /\ fmt_pc' = next
    /\ UNCHANGED <<fmt_in, progVars>>

\* line 37
Md5Step == FmtStep("md5", "remove_c")

\* line 38
RemoveCStep == FmtStep("remove_c", "bold")

\* line 17
BoldStep == FmtStep("bold", "em")

\* line 18
EmStep == FmtStep("em", "return")

NextInline == Md5Step \/ RemoveCStep \/ BoldStep \/ EmStep

SpecInline == InitInline /\ [][NextInline]_vars

(***************************************************************************)
(* Vocabulary of the properties.                                           *)
(***************************************************************************)
Converted == pc = "written" \/ (pc = "exited" /\ exit_code = 0)

NumLines == Len(lines)

Body(k) == RstripNL(lines[k])

Count(seq, x) == Cardinality({p \in 1..Len(seq) : seq[p] = x})

EndsWith(s, t) == Len(s) >= Len(t) /\ SubSeq(s, Len(s) - Len(t) + 1, Len(s)) = t

Openers == {TagUl_Open, TagOl_Open, TagP_Open}

Closers == {TagUl_Close, TagOl_Close, TagP_Close}

CloserOf(open) ==
    CASE open = TagUl_Open -> TagUl_Close
      [] open = TagOl_Open -> TagOl_Close
      [] open = TagP_Open -> TagP_Close

IsHeadingOut(l) == StartsWith(l, <<"<", "h">>)

IsUlLine(k) == StartsWith(lines[k], PrefixUl)

IsOlLine(k) == StartsWith(lines[k], PrefixOl)

IsBlankLine(k) == Strip(lines[k]) = <<>>

IsHashLine(k) == StartsWith(lines[k], <<Hash>>)

IsParaLine(k) ==
    ~IsBlankLine(k) /\ ~IsHashLine(k) /\ ~IsUlLine(k) /\ ~IsOlLine(k)

\* a..b is a maximal run of directly consecutive lines of one kind
IsRun(Kind(_), a, b) ==
    /\ 1 <= a /\ a <= b /\ b <= NumLines
    /\ \A k \in a..b : Kind(k)
    /\ (a = 1 \/ ~Kind(a - 1))
    /\ (b = NumLines \/ ~Kind(b + 1))

RunStarts(Kind(_)) == {a \in 1..NumLines : Kind(a) /\ (a = 1 \/ ~Kind(a - 1))}

\* out is '<li>X</li>' with X, up to surrounding whitespace, the transform of
\* what follows the two-character prefix of raw
IsLiFor(out, raw) ==
    /\ StartsWith(out, TagLi_Open) /\ EndsWith(out, TagLi_Close)
    /\ Len(out) >= Len(TagLi_Open) + Len(TagLi_Close)
    /\ Strip(SubSeq(out, Len(TagLi_Open) + 1, Len(out) - Len(TagLi_Close)))
           = process_line_formatting(Strip(DropPrefix(raw, 2)))

ListBlockAt(p, a, b, open) ==
    /\ p >= 1 /\ p + (b - a) + 2 <= Len(html_lines)
    /\ html_lines[p] = open
    /\ \A k \in a..b : IsLiFor(html_lines[p + 1 + (k - a)], lines[k])
    /\ html_lines[p + (b - a) + 2] = CloserOf(open)

(***************************************************************************)
(* C1: in the output every container opening line is followed by its       *)
(* matching closing line before any other container is opened or a heading *)
(* line is emitted, at most one container is open at any point, and none   *)
(* is left open.                                                           *)
(***************************************************************************)
RECURSIVE Balanced(_, _, _)
Balanced(out, p, open) ==
    IF p > Len(out) THEN open = <<>>
    ELSE IF out[p] \in Openers THEN open = <<>> /\ Balanced(out, p + 1, out[p])
    ELSE IF out[p] \in Closers
         THEN open \in Openers /\ out[p] = CloserOf(open) /\ Balanced(out, p + 1, <<>>)
    ELSE IF IsHeadingOut(out[p]) THEN open = <<>> /\ Balanced(out, p + 1, open)
    ELSE Balanced(out, p + 1, open)

C1_ContainersBalanced == Balanced(html_lines, 1, <<>>)

C1_Witness ==
    /\ Converted
    /\ Count(html_lines, TagUl_Open) = 1
    /\ Count(html_lines, TagP_Open) = 1
    /\ \E p \in 1..Len(html_lines) : IsHeadingOut(html_lines[p])

(***************************************************************************)
(* C2: every maximal run of k directly consecutive '- ' lines produces one *)
(* '<ul>' line, k '<li>...</li>' lines in input order and one '</ul>'      *)
(* line, there being exactly one '<ul>' per run; the same for '* ' and     *)
(* '<ol>'; and a '- ' run directly followed by a '* ' run gives a closed   *)
(* '<ul>' block directly followed by a separate '<ol>' block.              *)
(***************************************************************************)
C2_ListRuns ==
    Converted =>
      /\ \A a, b \in 1..NumLines :
            IsRun(IsUlLine, a, b) =>
               \E p \in 1..Len(html_lines) :
                  /\ ListBlockAt(p, a, b, TagUl_Open)
                  /\ (b < NumLines /\ IsOlLine(b + 1)) =>
                        \E c \in (b + 1)..NumLines :
                           /\ IsRun(IsOlLine, b + 1, c)
                           /\ ListBlockAt(p + (b - a) + 3, b + 1, c, TagOl_Open)
      /\ \A a, b \in 1..NumLines :
            IsRun(IsOlLine, a, b) =>
               \E p \in 1..Len(html_lines) : ListBlockAt(p, a, b, TagOl_Open)
      /\ Count(html_lines, TagUl_Open) = Cardinality(RunStarts(IsUlLine))
      /\ Count(html_lines, TagUl_Close) = Cardinality(RunStarts(IsUlLine))
      /\ Count(html_lines, TagOl_Open) = Cardinality(RunStarts(IsOlLine))
      /\ Count(html_lines, TagOl_Close) = Cardinality(RunStarts(IsOlLine))

C2_Witness ==
    /\ Converted
    /\ NumLines >= 3
    /\ IsRun(IsUlLine, 1, 2)
    /\ Body(1) # Body(2)
    /\ IsOlLine(3)
    /\ Len(html_lines) = 7

(***************************************************************************)
(* C3: every maximal run of k consecutive paragraph-text lines (non-blank, *)
(* no '#', '- ' or '* ' prefix) produces one '<p>' line, the k transformed *)
(* lines in input order with exactly one '<br/>' line between neighbours   *)
(* and none before the first or after the last, then one '</p>' line.      *)
(***************************************************************************)
ParagraphBlockAt(p, a, b) ==
    /\ p >= 1 /\ p + 2 * (b - a) + 2 <= Len(html_lines)
    /\ html_lines[p] = TagP_Open
    /\ \A k \in a..b :
          html_lines[p + 1 + 2 * (k - a)] = process_line_formatting(Body(k))
    /\ \A k \in a..(b - 1) : html_lines[p + 2 + 2 * (k - a)] = TagBr
    /\ html_lines[p + 2 * (b - a) + 2] = TagP_Close

ClaimLevel(k) == HashCount(Body(k))

ClaimContent(k) == DropPrefix(Body(k), ClaimLevel(k) + 1)

IsHeadingInput(k) ==
    /\ ClaimLevel(k) \in 1..6
    /\ Len(Body(k)) > ClaimLevel(k) + 1
    /\ Body(k)[ClaimLevel(k) + 1] = " "

ExpectedHeading(n, t) ==
    <<"<", "h">> \o <<Digit(n)>> \o <<">">> \o t \o <<"<", "/", "h">> \o <<Digit(n)>> \o <<">">>

\* s.lstrip(), except that of an all-whitespace s the last character stays
HeadingText(s) ==
    IF SpaceCount(s) < Len(s) THEN DropPrefix(s, SpaceCount(s))
    ELSE <<s[Len(s)]>>

(***************************************************************************)
(* C4, as stated: every line of n '#' (1 <= n <= 6), one space and         *)
(* non-empty content produces the output line '<hn>T</hn>' with T the      *)
(* inline transform of that content.                                       *)
(***************************************************************************)
C4_HeadingContentVerbatim ==
    Converted =>
      \A k \in 1..NumLines :
         IsHeadingInput(k) =>
            \E p \in 1..Len(html_lines) :
               html_lines[p] = ExpectedHeading(ClaimLevel(k),
                                   process_line_formatting(ClaimContent(k)))

(***************************************************************************)
(* C4, amended: every such line produces exactly one output line           *)
(* '<hn>T</hn>', n the number of '#', with T the inline transform of the   *)
(* content after its leading whitespace is dropped (of an all-whitespace   *)
(* content, its last character); the line before it in the output is the   *)
(* closing line of a block or another heading, never an open container.    *)
(***************************************************************************)
C4_HeadingLeadingSpaceDropped ==
    Converted =>
      /\ \A k \in 1..NumLines :
            IsHeadingInput(k) =>
               \E p \in 1..Len(html_lines) :
                  /\ html_lines[p] = ExpectedHeading(ClaimLevel(k),
                                        process_line_formatting(HeadingText(ClaimContent(k))))
                  /\ \/ p = 1
                     \/ html_lines[p - 1] \in Closers
                     \/ IsHeadingOut(html_lines[p - 1])
      /\ Cardinality({p \in 1..Len(html_lines) : IsHeadingOut(html_lines[p])})
            = Cardinality({k \in 1..NumLines : IsHeadingInput(k)})

C4_Witness ==
    /\ Converted
    /\ NumLines = 3
    /\ IsUlLine(1)
    /\ IsHeadingInput(2) /\ ClaimLevel(2) = 1 /\ ClaimContent(2) = <<" ", "a">>
    /\ IsHeadingInput(3) /\ ClaimLevel(3) = 6
    /\ html_lines[4] = <<"<", "h", "1", ">", "a", "<", "/", "h", "1", ">">>
    /\ Len(html_lines) = 5

(***************************************************************************)
(* C5: every non-blank line that is not a heading, a '- ' item or a '* '   *)
(* item is paragraph text: its transformed content is an output line       *)
(* inside a '<p>' block, and the output has at least as many lines as the  *)
(* input has non-blank lines.                                              *)
(***************************************************************************)
IsSpecParaText(k) ==
    ~IsBlankLine(k) /\ ~IsHeadingInput(k) /\ ~IsUlLine(k) /\ ~IsOlLine(k)

C5_NoLineDropped ==
    Converted =>
      /\ \A k \in 1..NumLines :
            IsSpecParaText(k) =>
               \E q, p \in 1..Len(html_lines) :
                  /\ q < p
                  /\ html_lines[q] = TagP_Open
                  /\ \A r \in q..p : html_lines[r] # TagP_Close
                  /\ html_lines[p] = process_line_formatting(Body(k))
      /\ Len(html_lines) >= Cardinality({k \in 1..NumLines : ~IsBlankLine(k)})

(***************************************************************************)
(* C6: a blank line does not close an open list: two '- ' items (or two    *)
(* '* ' items) with only items of that kind and blank lines between them   *)
(* lie in one list block.                                                  *)
(***************************************************************************)
SameBlock(a, b, close) ==
    \E p, q \in 1..Len(html_lines) :
       /\ p < q
       /\ IsLiFor(html_lines[p], lines[a])
       /\ IsLiFor(html_lines[q], lines[b])
       /\ \A r \in p..q : html_lines[r] # close

C6_BlankKeepsListOpen ==
    Converted =>
      \A a, b \in 1..NumLines :
         /\ (/\ a < b /\ IsUlLine(a) /\ IsUlLine(b)
             /\ \A k \in (a + 1)..(b - 1) : IsUlLine(k) \/ IsBlankLine(k))
               => SameBlock(a, b, TagUl_Close)
         /\ (/\ a < b /\ IsOlLine(a) /\ IsOlLine(b)
             /\ \A k \in (a + 1)..(b - 1) : IsOlLine(k) \/ IsBlankLine(k))
               => SameBlock(a, b, TagOl_Close)

(***************************************************************************)
(* C8: the content between '<li>' and '</li>' is the inline transform of   *)
(* the rest of the line after its two-character prefix, trimmed.           *)
(***************************************************************************)
C8_ItemContentTrimmed ==
    Converted =>
      \A k \in 1..NumLines :
         (IsUlLine(k) \/ IsOlLine(k)) =>
            \E p \in 1..Len(html_lines) :
               html_lines[p] = TagLi_Open
                                  \o process_line_formatting(Strip(DropPrefix(Body(k), 2)))
                                  \o TagLi_Close

(***************************************************************************)
(* C9: there are exactly two error outcomes, usage (fewer than 2           *)
(* arguments) and 'Missing' (input absent or not a regular file), both     *)
(* with exit code 1, without markdown_to_html being invoked and without    *)
(* the output file being touched; otherwise the output is written and the  *)
(* exit code is 0.                                                         *)
(***************************************************************************)
C9_TwoErrorOutcomes ==
    /\ pc \in {"read_input", "loop", "ul", "ol", "p", "written"}
          => (argv_len >= 3 /\ input_kind = "file")
    /\ pc = "exited" =>
          IF argv_len < 3
          THEN stderr = "usage" /\ exit_code = 1
                  /\ out_file \in {NoFile, [exists |-> TRUE, data |-> OldData]}
          ELSE IF input_kind # "file"
          THEN stderr = "missing" /\ exit_code = 1
                  /\ out_file \in {NoFile, [exists |-> TRUE, data |-> OldData]}
          ELSE stderr = "" /\ exit_code = 0
                  /\ out_file = [exists |-> TRUE,
                                 data |-> Join(<<NL>>, html_lines) \o <<NL>>]

(***************************************************************************)
(* C10: the block-assembly loop terminates on every input: the program     *)
(* always exits; i never exceeds len(lines) and moves one line at a time;  *)
(* every pass of the outer loop advances i (a '#' or blank line by one, a  *)
(* list or paragraph run by the at least one line it collected); and for   *)
(* empty or all-blank input the fragment sequence is empty.                *)
(***************************************************************************)
Collected ==
    CASE pc = "ul" -> ul_items
      [] pc = "ol" -> ol_items
      [] pc = "p" -> paragraph_lines
      [] OTHER -> <<>>

C10_LoopTerminates ==
    /\ <>(pc = "exited")
    /\ [](i <= Len(lines))
    /\ [][i' \in {i, i + 1}]_vars
    /\ [][(pc = "loop" /\ pc' = "loop") => i' = i + 1]_vars
    /\ [][(pc \in {"ul", "ol", "p"} /\ pc' = "loop") => Len(Collected) >= 1]_vars
    /\ [][(pc = "loop" /\ pc' = "written") => i = Len(lines)]_vars
    /\ []((Converted /\ \A k \in 1..NumLines : IsBlankLine(k)) => html_lines = <<>>)

C10_Witness ==
    /\ pc = "exited" /\ exit_code = 0
    /\ NumLines = 3 /\ i = 3
    /\ IsBlankLine(1) /\ IsHashLine(2) /\ IsParaLine(3)

(***************************************************************************)
(* C7, as stated: the four rewrites run in the order hash, strip, bold,    *)
(* emphasis, and markers inside a '[[...]]' or '((...))' span are never    *)
(* turned into tags: the result of a text that is one such span holds no   *)
(* tag.                                                                    *)
(***************************************************************************)
IsSpan(text, rule) ==
    /\ Len(text) >= 5
    /\ StartsWith(text, OpenOf(rule))
    /\ EndsWith(text, CloseOf(rule))

SpanInner(text) == SubSeq(text, 3, Len(text) - 2)

HasTag(text) == \E k \in 1..Len(text) : text[k] = "<"

C7_SpanMarkersNeverTags ==
    (fmt_pc = "return" /\ (IsSpan(fmt_in, "md5") \/ IsSpan(fmt_in, "remove_c")))
        => ~HasTag(fmt_text)

(***************************************************************************)
(* C7, amended: the four rewrites run in the order hash, strip, bold,      *)
(* emphasis, each over the result of the previous one. Markers inside a    *)
(* '[[...]]' span are consumed: the span becomes its 32-digit digest and   *)
(* holds no tag. Markers inside a '((...))' span survive the strip, which  *)
(* removes 'c' and 'C' only, and the bold and emphasis steps then rewrite  *)
(* them: '((**a**))' gives '<b>a</b>'.                                     *)
(***************************************************************************)
WithoutC(s) == SelectSeq(s, LAMBDA c : c # "c" /\ c # "C")

C7_OrderAndSpans ==
    /\ fmt_pc = "remove_c" => fmt_text = ReSub("md5", fmt_in)
    /\ fmt_pc = "bold" => fmt_text = ReSub("remove_c", ReSub("md5", fmt_in))
    /\ fmt_pc = "return" =>
          /\ fmt_text = process_line_formatting(fmt_in)
          /\ IsSpan(fmt_in, "md5") =>
                /\ fmt_text = hexdigest(SpanInner(fmt_in))
                /\ Len(fmt_text) = 32
                /\ ~HasTag(fmt_text)
          /\ IsSpan(fmt_in, "remove_c") =>
                /\ fmt_text = ReSub("em", ReSub("bold", WithoutC(SpanInner(fmt_in))))
                /\ \A k \in 1..Len(fmt_text) : fmt_text[k] \notin {"c", "C"}
          /\ fmt_in = <<"(", "(", "*", "*", "a", "*", "*", ")", ")">>
                => fmt_text = <<"<", "b", ">", "a", "<", "/", "b", ">">>

C7_Witness ==
    /\ fmt_pc = "return"
    /\ fmt_in = <<"(", "(", "*", "*", "a", "*", "*", ")", ")">>
    /\ HasTag(fmt_text)

====
